---- MODULE Spec2Model ----
(***************************************************************************)
(* Asynchronous buffered sink of the Logger repository.                    *)
(*                                                                         *)
(* The sink core (push, pop, keepWatchAndPull, flush, the destructor) is   *)
(* modelled from src/src/DataOps.cpp; FileOps.cpp repeats push, pop,       *)
(* keepWatchAndPull and the destructor line for line.  The destination     *)
(* write of one batch is modelled from FileOps::writeToFile.               *)
(*                                                                         *)
(* A payload is a sequence of bytes (0..255), a record is a                *)
(* std::array<char, 1025> of RecordSize bytes.                             *)
(* Payloads handed to push are backed by NUL-terminated storage (every     *)
(* call site in the sources passes a std::string), so data.data() read as  *)
(* a C string ends at the first NUL of the payload or at its end.          *)
(***************************************************************************)
EXTENDS Integers, Sequences, FiniteSets, TLC

(***************************************************************************)
(* Program constants.                                                      *)
(***************************************************************************)
\* std::array<char, 1025> dataRecord; "One extra byte for null termination"
RecordSize == 1025

\* if (m_DataRecords.size() == 256)
Threshold == 256

(***************************************************************************)
(* Bounds of the model.                                                    *)
(***************************************************************************)
\* number of producer threads
NumProducers == 2

\* push calls per producer in the concurrent specification
MaxPushes == 1

\* flush calls of the flushing thread
MaxFlushes == 1

\* largest number of whole 1024-byte chunks of a payload of the encoder
\* specification
MaxChunks == 3

\* pushes beyond the threshold in the threshold specification
ExtraPushes == 1

\* largest number of elements of an array of numbers handed to writeFile
MaxElements == 2

(***************************************************************************)
(* Threads.                                                                *)
(***************************************************************************)
Producers == {<<"producer", i>> : i \in 1..NumProducers}
Flusher   == <<"flusher", 0>>
Owner     == <<"owner", 0>>
Watcher   == <<"watcher", 0>>
Writer    == <<"writer", 0>>
Reader    == <<"reader", 0>>
Threads   == Producers \cup {Flusher, Owner, Watcher, Writer, Reader}

\* the watcher thread of the second FileOps instance
OtherWatcher == <<"watcher", 1>>
Watchers  == {Watcher, OtherWatcher}
NoThread  == <<"none", 0>>

\* content of an array slot that was never written
Uninit == -1
\* what lies behind a char array that holds no NUL byte
Junk == 256
\* a null std::exception_ptr
NullPtr == "nullptr"
\* the message of the std::runtime_error thrown when the file does not open
WritingError == "WRITING_ERROR"

(***************************************************************************)
(* Strings and records.                                                    *)
(***************************************************************************)
Min(a, b) == IF a < b THEN a ELSE b

\* std::string::substr(pos, count), pos counted from 0
substr(s, pos, count) == SubSeq(s, pos + 1, Min(Len(s), pos + count))

\* std::string::substr(pos): the rest of the string from pos on
substrFrom(s, pos) == SubSeq(s, pos + 1, Len(s))

\* index of the first NUL of s, or Len(s) + 1 when s holds none
FirstNul(s) ==
    LET nuls == {j \in 1..Len(s) : s[j] = 0} IN
        IF nuls = {} THEN Len(s) + 1
        ELSE CHOOSE j \in nuls : \A k \in nuls : j <= k

\* std::string dataCopy = data.data(): the payload read as a C string
CString(data) == SubSeq(data, 1, FirstNul(data) - 1)

\* A std::array<char, 1025> is held as the bytes of its front (head) and
\* the byte (pad) that every slot behind the front holds, up to RecordSize:
\* slot i holds arrayAt(rec, i).  Two forms of one array are possible (a
\* front that ends in pad bytes); arrays are compared slot by slot.
arrayAt(rec, i) == IF i <= Len(rec.head) THEN rec.head[i] ELSE rec.pad

\* std::array<char, 1025> dataRecord; declared without an initialiser
UninitRecord == [head |-> <<>>, pad |-> Uninit]

\* dataRecord.fill('\0')
ZeroRecord == [head |-> <<>>, pad |-> 0]

\* std::copy(data.begin(), data.end(), dataRecord.begin())
stdCopy(rec, data) ==
    [head |-> data \o SubSeq(rec.head, Len(data) + 1, Len(rec.head)),
     pad  |-> rec.pad]

\* std::fill(dataRecord.begin() + from, dataRecord.end(), byte)
stdFill(rec, from, byte) ==
    [head |-> [i \in 1..from |-> arrayAt(rec, i)],
     pad  |-> byte]

\* size of the chunk the splitting loop cuts off: dataRecord.size() - 1
ChunkSize == RecordSize - 1

\* offset at which the loop continues: dataCopy.substr(dataRecord.size())
NextChunkOffset == RecordSize

\* the push lambda without its std::fill
copyNoFill(dataRecord, data) == stdCopy(dataRecord, data)

\* the inner push lambda up to m_DataRecords.push: std::copy of data into
\* the record, std::fill of the rest when data.size() < dataRecord.size()
copyAndFill(dataRecord, data) ==
    IF Len(data) < RecordSize
    THEN stdFill(stdCopy(dataRecord, data), Len(data), 0)
    ELSE stdCopy(dataRecord, data)

\* while (dataCopy.size() > dataRecord.size()) { ... } if (!dataCopy.empty())
RECURSIVE splitAndPush(_, _, _)
splitAndPush(q, dataRecord, dataCopy) ==
    IF Len(dataCopy) > RecordSize
    THEN splitAndPush(
            Append(q, copyAndFill(dataRecord, substr(dataCopy, 0, ChunkSize))),
            ZeroRecord,
            substrFrom(dataCopy, NextChunkOffset))
    ELSE IF dataCopy # <<>>
         THEN Append(q, copyAndFill(dataRecord, dataCopy))
         ELSE q

\* the block of push that runs under the scoped_lock: the queue after the
\* records of data were appended to q
pushRecords(q, data) ==
    IF Len(data) > RecordSize
    THEN splitAndPush(q, UninitRecord, CString(data))
    ELSE Append(q, copyAndFill(UninitRecord, data))

\* a threshold test that is off by one
thresholdReachedEarly(q) == Len(q) = Threshold - 1

\* if (m_DataRecords.size() == 256)
thresholdReached(q) == Len(q) = Threshold

\* index of the first NUL of the array, or RecordSize + 1 when it holds none
firstNulOf(rec) ==
    IF FirstNul(rec.head) <= Len(rec.head) THEN FirstNul(rec.head)
    ELSE IF Len(rec.head) < RecordSize /\ rec.pad = 0 THEN Len(rec.head) + 1
    ELSE RecordSize + 1

\* data.data() of a record read as a C string by operator<<: the bytes up
\* to the first NUL; a record without a NUL is read past its end, and what
\* follows it (tail) is whatever the stack holds
recordLine(rec, tail) ==
    IF firstNulOf(rec) <= RecordSize
    THEN [i \in 1..(firstNulOf(rec) - 1) |-> arrayAt(rec, i)]
    ELSE [i \in 1..RecordSize |-> arrayAt(rec, i)] \o tail

JunkTails == {<<>>, <<Junk>>}

(***************************************************************************)
(* File names and paths of FileOps: a std::string is a sequence of         *)
(* one-character strings.                                                  *)
(***************************************************************************)
\* std::string::npos, the largest value of size_t (here of the integers of
\* the model checker)
npos == 2147483647

\* static constexpr std::string_view DEFAULT_FILE_EXTN = ".txt"
DEFAULT_FILE_EXTN == <<".", "t", "x", "t">>

\* std::string::find(c): offset of the first c in s, counted from 0, or npos
find(s, c) ==
    LET at == {j \in 1..Len(s) : s[j] = c} IN
        IF at = {} THEN npos
        ELSE (CHOOSE j \in at : \A k \in at : j <= k) - 1

\* std::string::find_last_of(c): offset of the last c in s, or npos
find_last_of(s, c) ==
    LET at == {j \in 1..Len(s) : s[j] = c} IN
        IF at = {} THEN npos
        ELSE (CHOOSE j \in at : \A k \in at : j >= k) - 1

\* the lambda getSeparator of populateFilePathObj, on Linux
getSeparator == <<"/">>

\* std::filesystem::current_path().string(), a directory that exists
current_path == <<"/", "c">>

\* the name, path and extension members and the path object of a FileOps
\* that has none of them
NoFile ==
    [m_FileName |-> <<>>, m_FilePath |-> <<>>, m_FileExtension |-> <<>>,
     m_FilePathObj |-> <<>>]

\* FileOps::populateFilePathObj(fileDetails) on the members f: the members
\* and the path object after the call
populateFilePathObj(f, fileDetails) ==
    LET name0 == IF fileDetails[1] # <<>> THEN fileDetails[1]
                 ELSE f.m_FileName
        path0 == IF fileDetails[2] # <<>> THEN fileDetails[2]
                 ELSE f.m_FilePath
        extn0 == IF fileDetails[3] # <<>> THEN fileDetails[3]
                 ELSE f.m_FileExtension
        \* lines 113-129
        extn1 == IF extn0 # <<>> THEN extn0
                 ELSE IF find(name0, ".") # npos
                      THEN substrFrom(name0, find_last_of(name0, "."))
                      ELSE DEFAULT_FILE_EXTN
        name1 == IF extn0 # <<>>
                 THEN substr(name0, 0, find_last_of(name0, ".")) \o extn0
                 ELSE IF find(name0, ".") # npos THEN name0
                      ELSE name0 \o DEFAULT_FILE_EXTN
        \* lines 142-144
        pathSeparator ==
            IF find_last_of(name1, "/") # npos THEN find_last_of(name1, "/")
            ELSE find_last_of(name1, "\\")
        \* lines 140-164
        path2 == IF path0 = <<>>
                 THEN IF pathSeparator # npos
                      THEN substr(name1, 0, pathSeparator + 1)
                      ELSE current_path \o getSeparator
                 ELSE IF path0[Len(path0)] \notin {"/", "\\"}
                      THEN path0 \o getSeparator
                      ELSE path0
        name2 == IF path0 = <<>> /\ pathSeparator # npos
                 THEN substrFrom(name1, pathSeparator + 1)
                 ELSE name1
    IN  IF name0 = <<>>
        THEN [m_FileName |-> name0, m_FilePath |-> path0,
              m_FileExtension |-> extn0, m_FilePathObj |-> f.m_FilePathObj]
        ELSE [m_FileName |-> name2, m_FilePath |-> path2,
              m_FileExtension |-> extn1, m_FilePathObj |-> path2 \o name2]

\* the members after FileOps::FileOps(maxFileSize, fileName, filePath,
\* fileExtension): the initialisers, then populateFilePathObj on them
constructed(fileName, filePath, fileExtension) ==
    populateFilePathObj(
        [m_FileName |-> fileName, m_FilePath |-> filePath,
         m_FileExtension |-> fileExtension, m_FilePathObj |-> <<>>],
        <<fileName, filePath, fileExtension>>)

\* the file system: the directories that exist and in which a file can be
\* created
Directories == {<<"d", "/">>, current_path \o getSeparator}

\* std::filesystem::path::parent_path of a file path, with its separator
parent_path(file) ==
    IF find_last_of(file, "/") = npos THEN <<>>
    ELSE substr(file, 0, find_last_of(file, "/") + 1)

\* std::ofstream FILE(file) opens: the path is not empty and names a file in
\* a directory that exists
canOpen(file) == file # <<>> /\ parent_path(file) \in Directories

(***************************************************************************)
(* State.                                                                  *)
(***************************************************************************)
VARIABLES
    m_DataRecords,      \* the record queue
    m_dataReady,        \* "batch ready" flag
    m_shutAndExit,      \* "shutdown requested" flag
    m_DataRecordsMtx,   \* owner of the queue mutex, or NoThread
    m_DataRecordsCv,    \* threads blocked in m_DataRecordsCv.wait
    pc,                 \* position of every thread
    data,               \* argument of the push call of each producer
    calls,              \* number of push calls each producer has made
    dataq,              \* keepWatchAndPull: BufferQ dataq
    success,            \* keepWatchAndPull: auto success
    excpPtr,            \* keepWatchAndPull: std::exception_ptr excpPtr
    m_excpPtrVec,       \* the fault list
    m_FileOpsMutex,     \* owner of the destination mutex, or NoThread
    m_isFileOpsRunning, \* file operation in progress
    errMsg,             \* writeToFile: std::string errMsg
    file,               \* lines of the destination file
    flushes,            \* number of flush calls made
    enqHist,            \* history: every record enqueued, in enqueue order
    batches,            \* history: every batch pop handed out, in order
    flushMark,          \* history: Len(enqHist) when the flush call began
    shutMark,           \* history: Len(enqHist) when shutdown was requested
    pushNotifies,       \* history: notify_one calls made by push
    writeFailed,        \* history: number of batches whose write failed
    failedAt,           \* history: the numbers of the batches whose write failed
    other,              \* a second FileOps instance of the process
    emplacing,          \* position of each watcher in m_excpPtrVec.emplace_back
    m_FileContent,      \* readFile: the lines read from the file
    m_FileName,         \* FileOps: name of the file
    m_FilePath,         \* FileOps: directory of the file
    m_FileExtension,    \* FileOps: extension of the file
    m_FilePathObj,      \* FileOps: path of the file
    exists,             \* the file system: the file of the sink exists
    thrown,             \* the exception each thread's call has ended with
    wdata,              \* argument of the writeFile call of each producer
    wcalls,             \* number of writeFile calls each producer has made
    toPush,             \* calls[p] when the push call of writeFile returns
    retVal,             \* createFile: auto retVal
    binaryStream,       \* argument of writeFile(const std::vector<T>&)
    bindex              \* number of elements the loop over it has taken

vars == <<m_DataRecords, m_dataReady, m_shutAndExit, m_DataRecordsMtx,
          m_DataRecordsCv, pc, data, calls, dataq, success,
          excpPtr, m_excpPtrVec, m_FileOpsMutex, m_isFileOpsRunning, errMsg,
          file, flushes, enqHist, batches, flushMark, shutMark,
          pushNotifies, writeFailed, failedAt, other, emplacing,
          m_FileContent, m_FileName, m_FilePath, m_FileExtension,
          m_FilePathObj, exists, thrown, wdata, wcalls, toPush, retVal,
          binaryStream, bindex>>

queueVars   == <<m_DataRecords, m_dataReady, m_shutAndExit>>
lockVars    == <<m_DataRecordsMtx, m_DataRecordsCv>>
pushVars    == <<data, calls>>
watchVars   == <<dataq, success, excpPtr, m_excpPtrVec>>
fileVars    == <<m_FileOpsMutex, m_isFileOpsRunning, errMsg, file>>
histVars    == <<enqHist, batches, flushMark, shutMark, pushNotifies,
                 writeFailed, failedAt>>
\* the variables that FileOps has and DataOps has not
otherVars   == <<other, emplacing, m_FileContent>>
\* the path of the file, the file system and the calls of the writeFile family
facadeVars  == <<m_FileName, m_FilePath, m_FileExtension, m_FilePathObj,
                 exists, thrown, wdata, wcalls, toPush, retVal,
                 binaryStream, bindex>>

\* the second FileOps instance after its constructor: its queue, its flags,
\* the positions of its watcher thread and of the thread that destroys it,
\* the number of push calls made on it
OtherInit ==
    [m_DataRecords |-> <<>>, m_dataReady |-> FALSE, m_shutAndExit |-> FALSE,
     dataq |-> <<>>, success |-> FALSE, pc |-> "w_lock", owner |-> "idle",
     calls |-> 0]

\* the arguments of the constructor of the sink of the specifications that
\* begin with a constructed sink
SinkFile == <<<<"a">>, <<"d">>, <<>>>>

\* the positions of the threads after the constructor: the watcher thread
\* is started, the others are outside every call
Started == [t \in Threads |-> IF t = Watcher THEN "w_lock" ELSE "idle"]

\* the state of a sink with the fault list faults, the threads at the
\* positions at, the path members and path object f, and a file that
\* exists or not
InitAt(faults, at, f, there) ==
    /\ m_DataRecords = <<>>
    /\ m_dataReady = FALSE
    /\ m_shutAndExit = FALSE
    /\ m_DataRecordsMtx = NoThread
    /\ m_DataRecordsCv = {}
    /\ pc = at
    /\ data = [p \in Producers |-> <<>>]
    /\ calls = [p \in Producers |-> 0]
    /\ dataq = <<>>
    /\ success = FALSE
    /\ excpPtr = NullPtr
    /\ m_excpPtrVec = faults
    /\ m_FileOpsMutex = NoThread
    /\ m_isFileOpsRunning = FALSE
    /\ errMsg = ""
    /\ file = <<>>
    /\ flushes = 0
    /\ enqHist = <<>>
    /\ batches = <<>>
    /\ flushMark = 0
    /\ shutMark = -1
    /\ pushNotifies = 0
    /\ writeFailed = 0
    /\ failedAt = {}
    /\ other = OtherInit
    /\ emplacing = [w \in Watchers |-> "out"]
    /\ m_FileContent = <<>>
    /\ m_FileName = f.m_FileName
    /\ m_FilePath = f.m_FilePath
    /\ m_FileExtension = f.m_FileExtension
    /\ m_FilePathObj = f.m_FilePathObj
    /\ exists = there
    /\ thrown = [t \in Threads |-> ""]
    /\ wdata = [p \in Producers |-> <<>>]
    /\ wcalls = [p \in Producers |-> 0]
    /\ toPush = [p \in Producers |-> 0]
    /\ retVal = [p \in Producers |-> FALSE]
    /\ binaryStream = <<>>
    /\ bindex = 0

\* the state after the constructor and the start of the watcher thread, for
\* a fault list that starts as faults and a file that exists
InitSink(faults) ==
    InitAt(faults, Started,
           constructed(SinkFile[1], SinkFile[2], SinkFile[3]), TRUE)

\* DataOps::DataOps(): m_excpPtrVec(0), a fault list without entries
Init == InitSink(<<>>)

goto(t, label) == pc' = [pc EXCEPT ![t] = label]

(***************************************************************************)
(* The condition variable m_DataRecordsCv.                                 *)
(***************************************************************************)
\* m_DataRecordsCv.notify_one(): one blocked thread, if there is any, is
\* released; which one is up to the scheduler
notify_one ==
    IF m_DataRecordsCv = {}
    THEN m_DataRecordsCv' = m_DataRecordsCv
    ELSE \E t \in m_DataRecordsCv :
            m_DataRecordsCv' = m_DataRecordsCv \ {t}

\* wait(lock): the mutex is released and the thread blocks, atomically
cvBlock(t, label) ==
    /\ m_DataRecordsMtx = t
    /\ m_DataRecordsMtx' = NoThread
    /\ m_DataRecordsCv' = m_DataRecordsCv \cup {t}
    /\ goto(t, label)

\* a released thread takes the mutex again before wait(lock) returns
cvWake(t, label) ==
    /\ t \notin m_DataRecordsCv
    /\ m_DataRecordsMtx = NoThread
    /\ m_DataRecordsMtx' = t
    /\ m_DataRecordsCv' = m_DataRecordsCv
    /\ goto(t, label)

\* a blocked thread may be released without any notification
SpuriousWake(t) ==
    /\ t \in m_DataRecordsCv
    /\ m_DataRecordsCv' = m_DataRecordsCv \ {t}
    /\ UNCHANGED <<facadeVars, otherVars, queueVars, m_DataRecordsMtx, pc, pushVars, watchVars,
                   fileVars, flushes, histVars>>

(***************************************************************************)
(* DataOps::push                                                           *)
(***************************************************************************)
\* a push that takes the queue mutex once per record: the first record of
\* the payload is appended in one step, the others in a later step
pushEnqueuePerRecord(p, payload) ==
    /\ pc[p] \in {"idle", "p_rest"}
    /\ payload # <<>>
    /\ m_DataRecordsMtx = NoThread
    /\ LET recs == pushRecords(<<>>, payload) IN
        IF pc[p] = "idle"
        THEN /\ m_DataRecords' = Append(m_DataRecords, Head(recs))
             /\ enqHist' = Append(enqHist, Head(recs))
             /\ goto(p, "p_rest")
             /\ UNCHANGED <<facadeVars, otherVars, data, calls>>
        ELSE /\ m_DataRecords' = m_DataRecords \o Tail(recs)
             /\ enqHist' = enqHist \o Tail(recs)
             /\ goto(p, "p_size")
             /\ data' = [data EXCEPT ![p] = payload]
             /\ calls' = [calls EXCEPT ![p] = @ + 1]
    /\ UNCHANGED <<facadeVars, otherVars, m_dataReady, m_shutAndExit, lockVars, watchVars, fileVars,
                   flushes, batches, flushMark, shutMark, pushNotifies,
                   writeFailed, failedAt>>

\* lines 58-93: an empty payload returns at once; the records of any other
\* payload are appended under one scoped_lock
pushEnqueue(p, payload) ==
    /\ pc[p] = "idle"
    /\ data' = [data EXCEPT ![p] = payload]
    /\ calls' = [calls EXCEPT ![p] = @ + 1]
    /\ IF payload = <<>>
       THEN /\ m_DataRecords' = m_DataRecords
            /\ goto(p, "idle")
       ELSE /\ m_DataRecordsMtx = NoThread
            /\ m_DataRecords' = pushRecords(m_DataRecords, payload)
            /\ goto(p, "p_size")
    /\ enqHist' = enqHist \o
                    SubSeq(m_DataRecords', Len(m_DataRecords) + 1,
                           Len(m_DataRecords'))
    /\ UNCHANGED <<facadeVars, otherVars, m_dataReady, m_shutAndExit, lockVars, watchVars, fileVars,
                   flushes, batches, flushMark, shutMark, pushNotifies,
                   writeFailed, failedAt>>

\* line 97: the size of the queue is read without the mutex
pushSize(p) ==
    /\ pc[p] = "p_size"
    /\ IF thresholdReached(m_DataRecords)
       THEN goto(p, "p_ready")
       ELSE goto(p, "idle")
    /\ UNCHANGED <<facadeVars, otherVars, queueVars, lockVars, pushVars, watchVars, fileVars,
                   flushes, histVars>>

\* line 99: m_dataReady = true, without the mutex
pushReady(p) ==
    /\ pc[p] = "p_ready"
    /\ m_dataReady' = TRUE
    /\ goto(p, "p_notify")
    /\ UNCHANGED <<facadeVars, otherVars, m_DataRecords, m_shutAndExit, lockVars, pushVars,
                   watchVars, fileVars, flushes, histVars>>

\* line 100: m_DataRecordsCv.notify_one()
pushNotify(p) ==
    /\ pc[p] = "p_notify"
    /\ notify_one
    /\ pushNotifies' = pushNotifies + 1
    /\ goto(p, "idle")
    /\ UNCHANGED <<facadeVars, otherVars, queueVars, m_DataRecordsMtx, pushVars, watchVars,
                   fileVars, flushes, enqHist, batches, flushMark, shutMark,
                   writeFailed, failedAt>>

(***************************************************************************)
(* DataOps::pop                                                            *)
(***************************************************************************)
\* a drain that copies the queue into the buffer and leaves the queue as is
copyOut(q, buf) == [queue |-> q, data |-> q]

\* a drain that does not clear the outgoing buffer: what a failed write left
\* in it goes out again with the next batch
mergeOut(q, buf) == [queue |-> <<>>, data |-> buf \o q]

\* a drain that takes the oldest record only
frontOut(q, buf) == [queue |-> Tail(q), data |-> <<Head(q)>>]

\* BufferQ().swap(data); data.swap(m_DataRecords): the outgoing buffer is
\* cleared and then exchanged with the queue
swapOut(q, buf) == [queue |-> <<>>, data |-> q]

\* pop(dataq), called with the queue mutex held
pop(q, buf, ready) ==
    IF q = <<>>
    THEN [success |-> FALSE, queue |-> q, data |-> buf, ready |-> ready]
    ELSE [success |-> TRUE,
          queue   |-> swapOut(q, buf).queue,
          data    |-> swapOut(q, buf).data,
          ready   |-> FALSE]

(***************************************************************************)
(* DataOps::keepWatchAndPull                                               *)
(***************************************************************************)
\* the predicate of the wait of line 125
watcherMayGo == m_dataReady \/ m_shutAndExit

\* lines 124-125: the mutex is taken and wait(lock, pred) tests the
\* predicate with the mutex held
watchLock ==
    /\ pc[Watcher] = "w_lock"
    /\ m_DataRecordsMtx = NoThread
    /\ m_DataRecordsMtx' = Watcher
    /\ IF watcherMayGo
       THEN goto(Watcher, "w_pop")
       ELSE goto(Watcher, "w_block")
    /\ UNCHANGED <<facadeVars, otherVars, queueVars, m_DataRecordsCv, pushVars, watchVars, fileVars,
                   flushes, histVars>>

\* line 125: the predicate was false, the watcher blocks
watchBlock ==
    /\ pc[Watcher] = "w_block"
    /\ cvBlock(Watcher, "w_blocked")
    /\ UNCHANGED <<facadeVars, otherVars, queueVars, pushVars, watchVars, fileVars, flushes,
                   histVars>>

\* line 125: released, the watcher locks again and tests the predicate again
watchWake ==
    /\ pc[Watcher] = "w_blocked"
    /\ IF watcherMayGo
       THEN cvWake(Watcher, "w_pop")
       ELSE cvWake(Watcher, "w_block")
    /\ UNCHANGED <<facadeVars, otherVars, queueVars, pushVars, watchVars, fileVars, flushes,
                   histVars>>

\* a watcher that pops and keeps the queue mutex while the batch is written
watchPopHold ==
    /\ pc[Watcher] = "w_pop"
    /\ m_DataRecordsMtx = Watcher
    /\ LET r == pop(m_DataRecords, dataq, m_dataReady) IN
        /\ success' = r.success
        /\ m_DataRecords' = r.queue
        /\ dataq' = r.data
        /\ m_dataReady' = r.ready
        /\ batches' = IF r.success THEN Append(batches, r.data) ELSE batches
    /\ goto(Watcher, "w_notify")
    /\ UNCHANGED <<facadeVars, otherVars, m_shutAndExit, lockVars, pushVars, excpPtr,
                   m_excpPtrVec, fileVars, flushes, enqHist, flushMark,
                   shutMark, pushNotifies, writeFailed, failedAt>>

\* lines 127-128: pop(dataq); dataLock.unlock()
watchPop ==
    /\ pc[Watcher] = "w_pop"
    /\ m_DataRecordsMtx = Watcher
    /\ LET r == pop(m_DataRecords, dataq, m_dataReady) IN
        /\ success' = r.success
        /\ m_DataRecords' = r.queue
        /\ dataq' = r.data
        /\ m_dataReady' = r.ready
        /\ batches' = IF r.success THEN Append(batches, r.data) ELSE batches
    /\ m_DataRecordsMtx' = NoThread
    /\ goto(Watcher, "w_notify")
    /\ UNCHANGED <<facadeVars, otherVars, m_shutAndExit, m_DataRecordsCv, pushVars, excpPtr,
                   m_excpPtrVec, fileVars, flushes, enqHist, flushMark,
                   shutMark, pushNotifies, writeFailed, failedAt>>

\* lines 129-142: notify_one(); excpPtr = nullptr; the writer thread is
\* started when pop handed out a batch
watchNotify ==
    /\ pc[Watcher] = "w_notify"
    /\ notify_one
    /\ excpPtr' = NullPtr
    /\ IF success
       THEN pc' = [pc EXCEPT ![Watcher] = "w_excp", ![Writer] = "wr_start"]
       ELSE goto(Watcher, "w_shut")
    /\ UNCHANGED <<facadeVars, otherVars, queueVars, m_DataRecordsMtx, pushVars, dataq, success,
                   m_excpPtrVec, fileVars, flushes, histVars>>

\* lines 144-145: excpPtr is read while the writer thread runs
watchExcp ==
    /\ pc[Watcher] = "w_excp"
    /\ m_excpPtrVec' = IF excpPtr # NullPtr
                       THEN Append(m_excpPtrVec, excpPtr)
                       ELSE m_excpPtrVec
    /\ goto(Watcher, "w_join")
    /\ UNCHANGED <<facadeVars, otherVars, queueVars, lockVars, pushVars, dataq, success, excpPtr,
                   fileVars, flushes, histVars>>

\* a watcher that goes on without joining the writer thread
watchNoJoin ==
    /\ pc[Watcher] = "w_join"
    /\ goto(Watcher, "w_shut")
    /\ UNCHANGED <<facadeVars, otherVars, queueVars, lockVars, pushVars, watchVars,
                   fileVars, flushes, histVars>>

\* line 146: writerThread.join()
watchJoin ==
    /\ pc[Watcher] = "w_join"
    /\ pc[Writer] = "wr_done"
    /\ pc' = [pc EXCEPT ![Watcher] = "w_shut", ![Writer] = "idle"]
    /\ UNCHANGED <<facadeVars, otherVars, queueVars, lockVars, pushVars, watchVars, fileVars,
                   flushes, histVars>>

\* lines 149-151: if (m_shutAndExit) break
watchShut ==
    /\ pc[Watcher] = "w_shut"
    /\ IF m_shutAndExit
       THEN goto(Watcher, "w_done")
       ELSE goto(Watcher, "w_lock")
    /\ UNCHANGED <<facadeVars, otherVars, queueVars, lockVars, pushVars, watchVars, fileVars,
                   flushes, histVars>>

(***************************************************************************)
(* FileOps::writeToFile, run by the writer thread on dataq                 *)
(***************************************************************************)
\* lines 606-614: nothing to do for an empty batch; else the destination
\* mutex is taken after the wait for !m_isFileOpsRunning
writeStart ==
    /\ pc[Writer] = "wr_start"
    /\ IF dataq = <<>>
       THEN /\ goto(Writer, "wr_done")
            /\ UNCHANGED <<facadeVars, otherVars, m_FileOpsMutex, m_isFileOpsRunning>>
       ELSE /\ m_FileOpsMutex = NoThread
            /\ ~m_isFileOpsRunning
            /\ m_FileOpsMutex' = Writer
            /\ m_isFileOpsRunning' = TRUE
            /\ goto(Writer, "wr_open")
    /\ UNCHANGED <<facadeVars, otherVars, queueVars, lockVars, pushVars, watchVars, errMsg, file,
                   flushes, histVars>>

\* lines 616-617, 628-635: the file is opened for appending, or it is not
writeOpen(isOpen) ==
    /\ pc[Writer] = "wr_open"
    /\ IF isOpen
       THEN /\ errMsg' = errMsg
            /\ goto(Writer, "wr_write")
       ELSE /\ errMsg' = WritingError
            /\ goto(Writer, "wr_release")
    /\ UNCHANGED <<facadeVars, otherVars, queueVars, lockVars, pushVars, watchVars, m_FileOpsMutex,
                   m_isFileOpsRunning, file, flushes, histVars>>

\* a writer that takes the newest record of the batch first
backOf(q) == q[Len(q)]

\* line 621: dataQueue.front()
frontOf(q) == Head(q)

\* lines 619-626: one turn of the loop writes the front record as a line
writeRecord ==
    /\ pc[Writer] = "wr_write"
    /\ IF dataq # <<>>
       THEN /\ \E tail \in JunkTails :
                 file' = Append(file, recordLine(frontOf(dataq), tail))
            /\ dataq' = Tail(dataq)
            /\ pc' = pc
       ELSE /\ file' = file
            /\ dataq' = dataq
            /\ goto(Writer, "wr_release")
    /\ UNCHANGED <<facadeVars, otherVars, queueVars, lockVars, pushVars, success, excpPtr,
                   m_excpPtrVec, m_FileOpsMutex, m_isFileOpsRunning, errMsg,
                   flushes, histVars>>

\* a writer that throws where it finds the file closed: the unique_lock
\* unlocks, the flag of the running file operation stays set
writeReleaseLeak ==
    /\ pc[Writer] = "wr_release"
    /\ m_isFileOpsRunning' = (errMsg # "")
    /\ m_FileOpsMutex' = NoThread
    /\ excpPtr' = IF errMsg # "" THEN errMsg ELSE excpPtr
    /\ writeFailed' = IF errMsg # "" THEN writeFailed + 1 ELSE writeFailed
    /\ failedAt' = IF errMsg # "" THEN failedAt \cup {Len(batches)}
                   ELSE failedAt
    /\ errMsg' = ""
    /\ goto(Writer, "wr_done")
    /\ UNCHANGED <<facadeVars, otherVars, queueVars, lockVars, pushVars, dataq, success,
                   m_excpPtrVec, file, flushes, enqHist, batches, flushMark,
                   shutMark, pushNotifies>>

\* lines 636-646: the destination is released; a failure to open is thrown
\* and caught into excpPtr
writeRelease ==
    /\ pc[Writer] = "wr_release"
    /\ m_isFileOpsRunning' = FALSE
    /\ m_FileOpsMutex' = NoThread
    /\ excpPtr' = IF errMsg # "" THEN errMsg ELSE excpPtr
    /\ writeFailed' = IF errMsg # "" THEN writeFailed + 1 ELSE writeFailed
    /\ failedAt' = IF errMsg # "" THEN failedAt \cup {Len(batches)}
                   ELSE failedAt
    /\ errMsg' = ""
    /\ goto(Writer, "wr_done")
    /\ UNCHANGED <<facadeVars, otherVars, queueVars, lockVars, pushVars, dataq, success,
                   m_excpPtrVec, file, flushes, enqHist, batches, flushMark,
                   shutMark, pushNotifies>>

(***************************************************************************)
(* DataOps::flush                                                          *)
(***************************************************************************)
flushCall ==
    /\ pc[Flusher] \in {"idle", "f_done"}
    /\ flushes < MaxFlushes
    /\ flushes' = flushes + 1
    /\ flushMark' = Len(enqHist)
    /\ goto(Flusher, "f_lock")
    /\ UNCHANGED <<facadeVars, otherVars, queueVars, lockVars, pushVars, watchVars, fileVars,
                   enqHist, batches, shutMark, pushNotifies, writeFailed, failedAt>>

\* the predicate of the wait of line 159
flusherMayGo == ~m_dataReady

\* lines 156-157 and 163: the queue mutex is taken and the loop condition
\* tested; flush returns on an empty queue
flushLock ==
    /\ pc[Flusher] = "f_lock"
    /\ m_DataRecordsMtx = NoThread
    /\ IF m_DataRecords = <<>>
       THEN /\ m_DataRecordsMtx' = NoThread
            /\ goto(Flusher, "f_done")
       ELSE /\ m_DataRecordsMtx' = Flusher
            /\ goto(Flusher, "f_wait")
    /\ UNCHANGED <<facadeVars, otherVars, queueVars, m_DataRecordsCv, pushVars, watchVars, fileVars,
                   flushes, histVars>>

\* lines 159-161: wait(lock, pred) tests !m_dataReady with the mutex held;
\* when it holds: m_dataReady = true; dataLock.unlock()
flushWait ==
    /\ pc[Flusher] = "f_wait"
    /\ m_DataRecordsMtx = Flusher
    /\ IF flusherMayGo
       THEN /\ m_dataReady' = TRUE
            /\ m_DataRecordsMtx' = NoThread
            /\ goto(Flusher, "f_notify")
       ELSE /\ m_dataReady' = m_dataReady
            /\ m_DataRecordsMtx' = m_DataRecordsMtx
            /\ goto(Flusher, "f_block")
    /\ UNCHANGED <<facadeVars, otherVars, m_DataRecords, m_shutAndExit, m_DataRecordsCv, pushVars,
                   watchVars, fileVars, flushes, histVars>>

\* line 159: the predicate was false, the flushing thread blocks
flushBlock ==
    /\ pc[Flusher] = "f_block"
    /\ cvBlock(Flusher, "f_blocked")
    /\ UNCHANGED <<facadeVars, otherVars, queueVars, pushVars, watchVars, fileVars, flushes,
                   histVars>>

\* line 159: released, the thread locks again and tests the predicate again
flushWake ==
    /\ pc[Flusher] = "f_blocked"
    /\ cvWake(Flusher, "f_wait")
    /\ UNCHANGED <<facadeVars, otherVars, queueVars, pushVars, watchVars, fileVars, flushes,
                   histVars>>

\* line 162: m_DataRecordsCv.notify_one()
flushNotify ==
    /\ pc[Flusher] = "f_notify"
    /\ notify_one
    /\ goto(Flusher, "f_lock")
    /\ UNCHANGED <<facadeVars, otherVars, queueVars, m_DataRecordsMtx, pushVars, watchVars,
                   fileVars, flushes, histVars>>

(***************************************************************************)
(* DataOps::~DataOps                                                       *)
(***************************************************************************)
\* lines 44-49: m_shutAndExit = true under the queue mutex
dtorShut ==
    /\ pc[Owner] = "idle"
    /\ m_DataRecordsMtx = NoThread
    /\ m_shutAndExit' = TRUE
    /\ shutMark' = Len(enqHist)
    /\ goto(Owner, "d_notify")
    /\ UNCHANGED <<facadeVars, otherVars, m_DataRecords, m_dataReady, lockVars, pushVars, watchVars,
                   fileVars, flushes, enqHist, batches, flushMark,
                   pushNotifies, writeFailed, failedAt>>

\* line 50: m_DataRecordsCv.notify_one()
dtorNotify ==
    /\ pc[Owner] = "d_notify"
    /\ notify_one
    /\ goto(Owner, "d_join")
    /\ UNCHANGED <<facadeVars, otherVars, queueVars, m_DataRecordsMtx, pushVars, watchVars,
                   fileVars, flushes, histVars>>

\* lines 52-53: m_watcher.join()
dtorJoin ==
    /\ pc[Owner] = "d_join"
    /\ pc[Watcher] = "w_done"
    /\ goto(Owner, "d_done")
    /\ UNCHANGED <<facadeVars, otherVars, queueVars, lockVars, pushVars, watchVars, fileVars,
                   flushes, histVars>>

(***************************************************************************)
(* Specification of the concurrent sink: producers, a flushing thread, the *)
(* owner that destroys the sink, the watcher and its writer thread.        *)
(***************************************************************************)
\* the payloads of the concurrent specification carry, in every byte, the
\* producer, the number of the push call and the number of the record
payloadId(p) == 32 * p[2] + 4 * calls[p]
shortPayload(id) == <<id>>
longPayload(id) == [i \in 1..(RecordSize + 1) |-> id + ((i - 1) \div RecordSize)]

idOf(rec) == arrayAt(rec, 1) - (arrayAt(rec, 1) % 4)
chunkOf(rec) == arrayAt(rec, 1) % 4
producerOf(rec) == <<"producer", arrayAt(rec, 1) \div 32>>

\* the producer of the specifications with one producer
Encoder == <<"producer", 1>>

ProducerStep ==
    \E p \in Producers :
        \/ /\ calls[p] < MaxPushes
           /\ pushEnqueue(p, shortPayload(payloadId(p)))
        \/ pushSize(p)

WatcherStep ==
    \/ watchLock \/ watchBlock \/ watchWake \/ watchPop
    \/ watchNotify \/ watchExcp \/ watchJoin \/ watchShut

WriterStep ==
    \/ writeStart \/ (\E isOpen \in BOOLEAN : writeOpen(isOpen))
    \/ writeRecord \/ writeRelease

FlusherStep ==
    \/ flushCall \/ flushLock \/ flushWait \/ flushBlock
    \/ flushWake \/ flushNotify

OwnerStep == dtorShut \/ dtorNotify \/ dtorJoin

Spurious == \E t \in {Watcher, Flusher} : SpuriousWake(t)

Next ==
    \/ ProducerStep
    \/ WatcherStep
    \/ WriterStep
    \/ FlusherStep
    \/ OwnerStep
    \/ Spurious

Spec == Init /\ [][Next]_vars

\* all batches handed out so far, one after the other
RECURSIVE flatten(_)
flatten(bs) == IF bs = <<>> THEN <<>> ELSE Head(bs) \o flatten(Tail(bs))

\* every record that left the queue, followed by the records still in it
allRecords == flatten(batches) \o m_DataRecords

\* the trimmed payload of a record: its bytes before the first NUL
trimmed(rec) == recordLine(rec, <<>>)

\* C1: when flush() has returned, every record enqueued before the call
\* began is written to the destination (the sink not being shut down and
\* no write having failed).
C1_FlushedIsWritten ==
    (pc[Flusher] = "f_done" /\ ~m_shutAndExit /\ writeFailed = 0
        /\ errMsg = "")
    => /\ Len(file) >= flushMark
       /\ \A i \in 1..flushMark : file[i] = trimmed(enqHist[i])

\* C2: when the watcher loop has terminated, every record enqueued before
\* shutdown was requested has been drained and written (no write having
\* failed).
C2_ShutdownDrains ==
    (pc[Watcher] = "w_done" /\ writeFailed = 0)
    => /\ Len(flatten(batches)) >= shutMark
       /\ Len(file) >= shutMark
       /\ \A i \in 1..shutMark : file[i] = trimmed(enqHist[i])

\* C4: as long as no batch write has failed, the lines of the destination
\* are a prefix of the lines of the records in the order of their enqueue.
C4_FifoPrefix ==
    writeFailed = 0
    => /\ Len(file) <= Len(enqHist)
       /\ \A i \in 1..Len(file) : file[i] = trimmed(enqHist[i])

C4_Witness ==
    /\ writeFailed = 0
    /\ Len(batches) = 2
    /\ Len(file) = 2
    /\ file[1] # file[2]
    /\ pc[Writer] = "wr_done"

(***************************************************************************)
(* Specification of multi-record payloads under concurrency: the first     *)
(* push of the first producer has a payload of two records, every other    *)
(* push a payload of one record, while flush makes the watcher drain; no   *)
(* write fails.                                                            *)
(***************************************************************************)
NextSplit ==
    \/ \E p \in Producers :
        \/ /\ calls[p] < MaxPushes
           /\ pushEnqueue(p, IF p[2] = 1 /\ calls[p] = 0
                              THEN longPayload(payloadId(p))
                              ELSE shortPayload(payloadId(p)))
        \/ pushSize(p)
    \/ WatcherStep
    \/ writeStart \/ writeOpen(TRUE) \/ writeRecord \/ writeRelease
    \/ FlusherStep

SpecSplit == Init /\ [][NextSplit]_vars

\* C3: the batches of all drains, with the records still queued, are
\* exactly the records enqueued, each once and in enqueue order, and the
\* records of each producer appear in the order the producer pushed them.
C3_DrainAtomic ==
    /\ allRecords = enqHist
    /\ \A i, j \in 1..Len(allRecords) :
        (i < j /\ producerOf(allRecords[i]) = producerOf(allRecords[j]))
        => arrayAt(allRecords[i], 1) < arrayAt(allRecords[j], 1)

C3_Witness ==
    /\ Len(batches) = 2
    /\ Len(flatten(batches)) = 3
    /\ m_DataRecords = <<>>
    /\ \A p \in Producers : pc[p] = "idle" /\ calls[p] = 1

\* C5: the records of one payload are contiguous in the order of enqueue,
\* and no drain falls between them: a batch holds all records of a payload
\* or none.
C5_PayloadContiguous ==
    /\ \A i, j \in 1..Len(enqHist) :
        (i < j /\ idOf(enqHist[i]) = idOf(enqHist[j]))
        => \A k \in i..j : idOf(enqHist[k]) = idOf(enqHist[i])
    /\ \A b \in 1..Len(batches) : \A i \in 1..Len(enqHist) :
        (\E j \in 1..Len(batches[b]) :
            idOf(batches[b][j]) = idOf(enqHist[i]))
        => \E j \in 1..Len(batches[b]) :
            arrayAt(batches[b][j], 1) = arrayAt(enqHist[i], 1)

C5_Witness ==
    /\ Len(enqHist) = 3
    /\ idOf(enqHist[1]) # idOf(enqHist[2])
    /\ idOf(enqHist[2]) = idOf(enqHist[3])
    /\ chunkOf(enqHist[3]) = 1
    /\ Len(batches) = 2

(***************************************************************************)
(* Specification of the threshold: one producer pushes one-byte payloads   *)
(* until the queue has passed the threshold; the watcher and its writer    *)
(* run, nothing else makes the watcher drain.                              *)
(***************************************************************************)
oneBytePayload == <<65>>

NextThreshold ==
    \/ /\ calls[Encoder] < Threshold + ExtraPushes
       /\ pushEnqueue(Encoder, oneBytePayload)
    \/ pushSize(Encoder)
    \/ pushReady(Encoder)
    \/ pushNotify(Encoder)
    \/ WatcherStep
    \/ writeStart \/ writeOpen(TRUE) \/ writeRecord \/ writeRelease

SpecThreshold == Init /\ [][NextThreshold]_vars

\* the threads run under a fair scheduler; nobody has to call push
FairSpecThreshold ==
    /\ SpecThreshold
    /\ WF_vars(pushSize(Encoder) \/ pushReady(Encoder) \/ pushNotify(Encoder))
    /\ WF_vars(WatcherStep)
    /\ WF_vars(writeStart \/ writeOpen(TRUE) \/ writeRecord \/ writeRelease)

\* C9: from an empty queue and without a drain, the ready flag is false
\* after each of the first 255 pushes of a single-record payload, and the
\* 256th push sets it and notifies the watcher.
C9_ThresholdAt256 ==
    \A p \in Producers :
        (pc[p] = "idle" /\ batches = <<>> /\ Len(enqHist) = calls[p])
        => /\ calls[p] < Threshold => (~m_dataReady /\ pushNotifies = 0)
           /\ calls[p] = Threshold => (m_dataReady /\ pushNotifies = 1)

C9_Witness ==
    \E p \in Producers :
        /\ pc[p] = "idle"
        /\ batches = <<>>
        /\ calls[p] = Threshold
        /\ Len(m_DataRecords) = Threshold
        /\ m_dataReady
        /\ pushNotifies = 1

\* C10: once the ready flag is true or shutdown is requested, the watcher
\* is eventually released from its wait and performs a drain.
C10_NoLostWakeup ==
    (m_dataReady \/ m_shutAndExit) ~> (pc[Watcher] = "w_notify")

(***************************************************************************)
(* Specification of the encoder: one push of one payload on an empty       *)
(* queue, for payloads of many lengths around the multiples of the chunk   *)
(* size, as text (no NUL byte) and as binary data (a NUL byte inside).     *)
(***************************************************************************)
EncRemainders == {0, 1, 2, 3, 11, 512, 1023}
EncLengths == {k * ChunkSize + r : k \in 0..MaxChunks, r \in EncRemainders}

textPayload(len) == [i \in 1..len |-> 1 + ((i - 1) % 251)]
binaryPayload(len) ==
    [i \in 1..len |-> IF i = (len + 1) \div 2 THEN 0 ELSE 1 + ((i - 1) % 251)]
EncPayloads == {textPayload(len) : len \in EncLengths}
                  \cup {binaryPayload(len) : len \in EncLengths}

NextEncode ==
    \/ /\ calls[Encoder] = 0
       /\ \E payload \in EncPayloads : pushEnqueue(Encoder, payload)
    \/ pushSize(Encoder)

SpecEncode == Init /\ [][NextEncode]_vars

isText(payload) == FirstNul(payload) > Len(payload)

RECURSIVE concatTrimmed(_)
concatTrimmed(q) ==
    IF q = <<>> THEN <<>> ELSE trimmed(Head(q)) \o concatTrimmed(Tail(q))

\* C6: a payload of length k*1024 + r (k >= 1, 0 <= r < 1024) is enqueued
\* as k + (1 if r > 0) records, and the trimmed payloads of these records,
\* concatenated in order, are the payload.  Stated for text payloads, whose
\* bytes trimming cannot cut.
C6_SplitRebuildsPayload ==
    \A p \in Producers :
        (pc[p] = "p_size" /\ Len(data[p]) >= ChunkSize /\ isText(data[p]))
        => LET k == Len(data[p]) \div ChunkSize
               r == Len(data[p]) % ChunkSize
           IN /\ Len(m_DataRecords) = k + (IF r > 0 THEN 1 ELSE 0)
              /\ concatTrimmed(m_DataRecords) = data[p]

\* C7: a non-empty payload of at most 1024 bytes is enqueued as exactly one
\* record: its first Len(payload) bytes are the payload, all later bytes up
\* to the 1025th are zero.
C7_SmallPayloadOneRecord ==
    \A p \in Producers :
        (pc[p] = "p_size" /\ Len(data[p]) \in 1..ChunkSize)
        => /\ Len(m_DataRecords) = 1
           /\ \A i \in 1..RecordSize :
                arrayAt(m_DataRecords[1], i) =
                    IF i <= Len(data[p]) THEN data[p][i] ELSE 0

C7_Witness ==
    \E p \in Producers :
        /\ pc[p] = "p_size"
        /\ Len(data[p]) = ChunkSize
        /\ Len(m_DataRecords) = 1
        /\ arrayAt(m_DataRecords[1], ChunkSize) = data[p][ChunkSize]
        /\ arrayAt(m_DataRecords[1], RecordSize) = 0

\* C8: every record in the queue has the zero terminator in its reserved
\* 1025th byte, so it holds at most 1024 meaningful bytes.
C8_RecordTerminated ==
    \A i \in 1..Len(m_DataRecords) :
        /\ arrayAt(m_DataRecords[i], RecordSize) = 0
        /\ firstNulOf(m_DataRecords[i]) <= RecordSize

(***************************************************************************)
(* Write failures, checked in the concurrent specification Spec, in which  *)
(* the file may fail to open on every batch.                               *)
(***************************************************************************)
\* C11: between two batches (the writer thread is joined), the fault list
\* holds exactly one entry for every batch whose write failed, each entry
\* being the captured failure, and no entry for a batch that was written.
C11_FaultPerFailedBatch ==
    pc[Writer] = "idle"
    => /\ Len(m_excpPtrVec) = writeFailed
       /\ \A i \in 1..Len(m_excpPtrVec) : m_excpPtrVec[i] = WritingError

\* the lines of the batches numbered i and up whose write did not fail
RECURSIVE keptLines(_)
keptLines(i) ==
    IF i > Len(batches) THEN <<>>
    ELSE (IF i \in failedAt THEN <<>>
          ELSE [j \in 1..Len(batches[i]) |-> trimmed(batches[i][j])])
         \o keptLines(i + 1)

isPrefix(s, t) == Len(s) <= Len(t) /\ s = SubSeq(t, 1, Len(s))

\* C12: the records of a batch whose write failed are dropped: they are
\* never back in the queue and no later write puts them into the
\* destination, whose lines are those of the other batches in order; the
\* watcher loop ends on shutdown only, not on a failed write.
C12_FailedBatchDropped ==
    /\ allRecords = enqHist
    /\ isPrefix(file, keptLines(1))
    /\ pc[Watcher] = "w_done" => m_shutAndExit

C12_Witness ==
    /\ failedAt = {1}
    /\ Len(batches) = 2
    /\ file = keptLines(1)
    /\ file # <<>>
    /\ pc[Writer] = "idle"

(***************************************************************************)
(* Shutdown.                                                               *)
(***************************************************************************)
\* C13: once the shutdown flag is set, no push adds a record to the queue:
\* the records ever enqueued are those enqueued when the flag was set.
C13_NoPushAfterShutdown ==
    m_shutAndExit => Len(enqHist) = shutMark

\* the burst of the threshold specification, followed by a flush and by the
\* destruction of the sink: flush and the destructor are called once the
\* producer has made Threshold pushes
NextShutdown ==
    \/ NextThreshold
    \/ (calls[Encoder] >= Threshold /\ flushCall)
    \/ flushLock \/ flushWait \/ flushBlock \/ flushWake \/ flushNotify
    \/ (calls[Encoder] >= Threshold /\ dtorShut)
    \/ dtorNotify \/ dtorJoin

SpecShutdown == Init /\ [][NextShutdown]_vars

\* every thread that is inside a call runs under a fair scheduler, and a
\* thread that waits for a mutex which is released again and again gets it
\* in the end (strong fairness of the threads that lock in a loop); nobody
\* has to call push, flush or the destructor
FairSpecShutdown ==
    /\ SpecShutdown
    /\ WF_vars(pushSize(Encoder) \/ pushReady(Encoder) \/ pushNotify(Encoder))
    /\ SF_vars(WatcherStep)
    /\ WF_vars(writeStart \/ writeOpen(TRUE) \/ writeRecord \/ writeRelease)
    /\ SF_vars(flushLock \/ flushWait \/ flushBlock \/ flushWake
                    \/ flushNotify)
    /\ WF_vars(dtorNotify \/ dtorJoin)

\* C14: once the destructor has set the shutdown flag, the watcher leaves
\* its loop and the destructor returns; the watcher leaves only when no
\* writer thread runs, and when the destructor has returned neither the
\* watcher nor a writer runs.
C14_ShutdownTerminates ==
    /\ [](pc[Watcher] = "w_done" => pc[Writer] = "idle")
    /\ [](pc[Owner] = "d_done"
            => (pc[Watcher] = "w_done" /\ pc[Writer] = "idle"))
    /\ (m_shutAndExit ~> pc[Owner] = "d_done")

(***************************************************************************)
(* The writer thread and the locks, checked in the concurrent              *)
(* specification Spec.                                                     *)
(***************************************************************************)
\* the writer thread is inside the batch write of lines 612-638
writerWrites == pc[Writer] \in {"wr_open", "wr_write", "wr_release"}

\* C15: a writer thread exists only while the watcher that started it is
\* between the start and the join of this thread, so the watcher neither
\* drains nor starts a writer while a writer runs, and the writer that
\* writes holds the destination mutex.
C15_OneWriter ==
    /\ pc[Writer] # "idle" => pc[Watcher] \in {"w_excp", "w_join"}
    /\ writerWrites => (m_FileOpsMutex = Writer /\ m_isFileOpsRunning)

C15_Witness ==
    /\ Len(batches) = 2
    /\ pc[Writer] = "wr_write"
    /\ Len(file) = Len(batches[1]) + 1

\* C16: while the writer thread writes a batch, neither the watcher nor
\* the writer holds the queue mutex, so that a push which finds the mutex
\* free takes it and enqueues before the write has finished.
C16_PushNotBlockedByWrite ==
    writerWrites
    => /\ m_DataRecordsMtx \notin {Watcher, Writer}
       /\ \A p \in Producers :
            (pc[p] = "idle" /\ m_DataRecordsMtx = NoThread)
            => ENABLED pushEnqueue(p, shortPayload(payloadId(p)))

\* the writer is in the middle of the first batch, and a record enqueued
\* after the drain of this batch is in the queue
C16_Witness ==
    /\ pc[Writer] = "wr_write"
    /\ Len(batches) = 1
    /\ dataq # <<>>
    /\ m_DataRecords # <<>>
    /\ m_DataRecordsMtx = NoThread

(***************************************************************************)
(* FileOps::readFile                                                       *)
(***************************************************************************)
\* lines 303-309: readFile is called once, on a sink that has a file path
readCall ==
    /\ pc[Reader] = "idle"
    /\ goto(Reader, "r_test")
    /\ UNCHANGED <<facadeVars, otherVars, queueVars, lockVars, pushVars, watchVars,
                   fileVars, flushes, histVars>>

\* line 310: while (!m_DataRecords.empty()), read without the queue mutex
readTest ==
    /\ pc[Reader] = "r_test"
    /\ IF m_DataRecords = <<>>
       THEN goto(Reader, "r_file")
       ELSE goto(Reader, "r_lock")
    /\ UNCHANGED <<facadeVars, otherVars, queueVars, lockVars, pushVars, watchVars,
                   fileVars, flushes, histVars>>

\* lines 312-313: the queue mutex is taken and wait(lock, pred) tests
\* !m_dataReady with the mutex held
readLock ==
    /\ pc[Reader] = "r_lock"
    /\ m_DataRecordsMtx = NoThread
    /\ m_DataRecordsMtx' = Reader
    /\ IF flusherMayGo
       THEN goto(Reader, "r_set")
       ELSE goto(Reader, "r_block")
    /\ UNCHANGED <<facadeVars, otherVars, queueVars, m_DataRecordsCv, pushVars,
                   watchVars, fileVars, flushes, histVars>>

\* line 313: the predicate was false, the reading thread blocks
readBlock ==
    /\ pc[Reader] = "r_block"
    /\ cvBlock(Reader, "r_blocked")
    /\ UNCHANGED <<facadeVars, otherVars, queueVars, pushVars, watchVars, fileVars,
                   flushes, histVars>>

\* line 313: released, the thread locks again and tests the predicate again
readWake ==
    /\ pc[Reader] = "r_blocked"
    /\ IF flusherMayGo
       THEN cvWake(Reader, "r_set")
       ELSE cvWake(Reader, "r_block")
    /\ UNCHANGED <<facadeVars, otherVars, queueVars, pushVars, watchVars, fileVars,
                   flushes, histVars>>

\* lines 314-315: m_dataReady = true; dataLock.unlock()
readSet ==
    /\ pc[Reader] = "r_set"
    /\ m_DataRecordsMtx = Reader
    /\ m_dataReady' = TRUE
    /\ m_DataRecordsMtx' = NoThread
    /\ goto(Reader, "r_notify")
    /\ UNCHANGED <<facadeVars, other, emplacing, m_FileContent, m_DataRecords,
                   m_shutAndExit, m_DataRecordsCv, pushVars, watchVars,
                   fileVars, flushes, histVars>>

\* line 316: m_DataRecordsCv.notify_one()
readNotify ==
    /\ pc[Reader] = "r_notify"
    /\ notify_one
    /\ goto(Reader, "r_test")
    /\ UNCHANGED <<facadeVars, otherVars, queueVars, m_DataRecordsMtx, pushVars,
                   watchVars, fileVars, flushes, histVars>>

\* lines 319-325: the old content is dropped; the destination mutex is
\* taken after the wait for !m_isFileOpsRunning
readAcquire ==
    /\ pc[Reader] = "r_file"
    /\ m_FileOpsMutex = NoThread
    /\ ~m_isFileOpsRunning
    /\ m_FileContent' = <<>>
    /\ m_FileOpsMutex' = Reader
    /\ m_isFileOpsRunning' = TRUE
    /\ goto(Reader, "r_read")
    /\ UNCHANGED <<facadeVars, other, emplacing, queueVars, lockVars, pushVars,
                   watchVars, errMsg, file, flushes, histVars>>

\* lines 327-350: the lines of the file are read when it opens; on both
\* paths the destination is released
readRelease(isOpen) ==
    /\ pc[Reader] = "r_read"
    /\ m_FileContent' = IF isOpen THEN file ELSE m_FileContent
    /\ m_isFileOpsRunning' = FALSE
    /\ m_FileOpsMutex' = NoThread
    /\ goto(Reader, "r_done")
    /\ UNCHANGED <<facadeVars, other, emplacing, queueVars, lockVars, pushVars,
                   watchVars, errMsg, file, flushes, histVars>>

ReaderStep ==
    \/ readCall \/ readTest \/ readLock \/ readBlock \/ readWake
    \/ readSet \/ readNotify \/ readAcquire
    \/ (\E isOpen \in BOOLEAN : readRelease(isOpen))

(***************************************************************************)
(* Specification of a file sink that is read: producers push, one thread   *)
(* calls readFile, which makes the watcher drain; the watcher and its      *)
(* writer run.                                                             *)
(***************************************************************************)
NextRead ==
    \/ ProducerStep
    \/ WatcherStep
    \/ WriterStep
    \/ ReaderStep

SpecRead == Init /\ [][NextRead]_vars

\* the positions whose next step reads or changes the queue: the size test
\* of push, pop, the emptiness test of readFile (push and flush take the
\* mutex in the step that appends or tests)
QueueAccess == {"p_size", "w_pop", "r_test"}

\* C17: a thread that is about to read or to change the queue holds the
\* queue mutex.
C17_QueueUnderLock ==
    \A t \in Threads : pc[t] \in QueueAccess => m_DataRecordsMtx = t

\* the positions whose next step writes m_dataReady: the threshold branch
\* of push, pop, flush, readFile (the destructor takes the mutex in the step
\* that sets m_shutAndExit)
FlagWrite == {"p_ready", "w_pop", "f_wait", "r_set"}

\* C18: a thread that is about to write the ready flag or the shutdown
\* flag holds the queue mutex.
C18_FlagsUnderLock ==
    \A t \in Threads : pc[t] \in FlagWrite => m_DataRecordsMtx = t

(***************************************************************************)
(* FileOps::keepWatchAndPull after the pop, and the fault list that all    *)
(* FileOps instances share.                                                *)
(***************************************************************************)
\* what a slot of the vector holds that no emplace_back has completed
Wild == "wild"

\* m_excpPtrVec.emplace_back(e) begins: std::vector has no lock of its own;
\* a call that overlaps another call races with it
emplaceBegin(w) ==
    /\ emplacing[w] = "out"
    /\ emplacing' =
        IF \E v \in Watchers : emplacing[v] # "out"
        THEN [v \in Watchers |->
                IF v = w \/ emplacing[v] # "out" THEN "raced" ELSE "out"]
        ELSE [emplacing EXCEPT ![w] = "in"]

\* m_excpPtrVec.emplace_back(e) returns: the entry is appended; after a race
\* the entry may be there, may be lost, or the slot may hold anything
emplaceEnd(w, e) ==
    /\ emplacing[w] # "out"
    /\ emplacing' = [emplacing EXCEPT ![w] = "out"]
    /\ IF emplacing[w] = "in"
       THEN m_excpPtrVec' = Append(m_excpPtrVec, e)
       ELSE m_excpPtrVec' \in {Append(m_excpPtrVec, e), m_excpPtrVec,
                                Append(m_excpPtrVec, Wild)}

\* FileOps.cpp lines 582-592: notify_one(); when pop handed out a batch, the
\* block of the if begins with a null excpPtr
fileWatchNotify ==
    /\ pc[Watcher] = "w_notify"
    /\ notify_one
    /\ excpPtr' = IF success THEN NullPtr ELSE excpPtr
    /\ IF success
       THEN goto(Watcher, "w_emplace")
       ELSE goto(Watcher, "w_shut")
    /\ UNCHANGED <<facadeVars, otherVars, queueVars, m_DataRecordsMtx, pushVars, dataq,
                   success, m_excpPtrVec, fileVars, flushes, histVars>>

\* FileOps.cpp line 593: m_excpPtrVec.emplace_back(excpPtr) begins
fileEmplaceBegin ==
    /\ pc[Watcher] = "w_emplace"
    /\ emplaceBegin(Watcher)
    /\ goto(Watcher, "w_emplacing")
    /\ UNCHANGED <<facadeVars, other, m_FileContent, queueVars, lockVars, pushVars,
                   watchVars, fileVars, flushes, histVars>>

\* FileOps.cpp lines 593-595: emplace_back returns, the writer thread is
\* started and the block of the if ends; excpPtr, which the writer holds
\* by reference, is a local of this block, so that the store of line 645
\* goes to a variable that is gone and nothing reads it
fileEmplaceEnd ==
    /\ pc[Watcher] = "w_emplacing"
    /\ emplaceEnd(Watcher, excpPtr)
    /\ pc' = [pc EXCEPT ![Watcher] = "w_join", ![Writer] = "wr_start"]
    /\ UNCHANGED <<facadeVars, other, m_FileContent, queueVars, lockVars, pushVars,
                   dataq, success, excpPtr, fileVars, flushes, histVars>>

FileWatcherStep ==
    \/ watchLock \/ watchBlock \/ watchWake \/ watchPop
    \/ fileWatchNotify \/ fileEmplaceBegin \/ fileEmplaceEnd
    \/ watchJoin \/ watchShut

(***************************************************************************)
(* The second FileOps instance, with its own queue, flags, mutex and file: *)
(* a step of it is a critical section of its queue mutex or what one of    *)
(* its threads does between two of them.                                   *)
(***************************************************************************)
\* FileOps::push on the second instance
otherPush ==
    /\ other.calls < MaxPushes
    /\ LET q == pushRecords(other.m_DataRecords, oneBytePayload) IN
        other' = [other EXCEPT !.calls = @ + 1,
                               !.m_DataRecords = q,
                               !.m_dataReady = @ \/ thresholdReached(q)]
    /\ UNCHANGED <<facadeVars, emplacing, m_FileContent, queueVars, lockVars, pc,
                   pushVars, watchVars, fileVars, flushes, histVars>>

\* FileOps::~FileOps on the second instance, lines 196-202
otherDtor ==
    /\ other.owner = "idle"
    /\ other' = [other EXCEPT !.owner = "d_join", !.m_shutAndExit = TRUE]
    /\ UNCHANGED <<facadeVars, emplacing, m_FileContent, queueVars, lockVars, pc,
                   pushVars, watchVars, fileVars, flushes, histVars>>

\* lines 204-205: m_watcher.join()
otherJoin ==
    /\ other.owner = "d_join"
    /\ other.pc = "w_done"
    /\ other' = [other EXCEPT !.owner = "d_done"]
    /\ UNCHANGED <<facadeVars, emplacing, m_FileContent, queueVars, lockVars, pc,
                   pushVars, watchVars, fileVars, flushes, histVars>>

\* keepWatchAndPull of the second instance, lines 577-592: the wait ends
\* when its predicate holds; pop
otherWatchPop ==
    /\ other.pc = "w_lock"
    /\ other.m_dataReady \/ other.m_shutAndExit
    /\ LET r == pop(other.m_DataRecords, other.dataq, other.m_dataReady) IN
        other' = [other EXCEPT !.success = r.success,
                               !.m_DataRecords = r.queue,
                               !.dataq = r.data,
                               !.m_dataReady = r.ready,
                               !.pc = IF r.success THEN "w_emplace"
                                      ELSE "w_shut"]
    /\ UNCHANGED <<facadeVars, emplacing, m_FileContent, queueVars, lockVars, pc,
                   pushVars, watchVars, fileVars, flushes, histVars>>

\* line 593 on the second instance: emplace_back on the shared list begins
otherEmplaceBegin ==
    /\ other.pc = "w_emplace"
    /\ emplaceBegin(OtherWatcher)
    /\ other' = [other EXCEPT !.pc = "w_emplacing"]
    /\ UNCHANGED <<facadeVars, m_FileContent, queueVars, lockVars, pc, pushVars,
                   watchVars, fileVars, flushes, histVars>>

\* line 593 on the second instance: emplace_back returns
otherEmplaceEnd ==
    /\ other.pc = "w_emplacing"
    /\ emplaceEnd(OtherWatcher, NullPtr)
    /\ other' = [other EXCEPT !.pc = "w_join"]
    /\ UNCHANGED <<facadeVars, m_FileContent, queueVars, lockVars, pc, pushVars, dataq,
                   success, excpPtr, fileVars, flushes, histVars>>

\* lines 594-597 on the second instance: its writer thread takes the batch
\* to the file of this instance and is joined
otherWrite ==
    /\ other.pc = "w_join"
    /\ other' = [other EXCEPT !.pc = "w_shut", !.dataq = <<>>]
    /\ UNCHANGED <<facadeVars, emplacing, m_FileContent, queueVars, lockVars, pc,
                   pushVars, watchVars, fileVars, flushes, histVars>>

\* lines 599-600 on the second instance
otherShut ==
    /\ other.pc = "w_shut"
    /\ other' = [other EXCEPT !.pc = IF other.m_shutAndExit THEN "w_done"
                                     ELSE "w_lock"]
    /\ UNCHANGED <<facadeVars, emplacing, m_FileContent, queueVars, lockVars, pc,
                   pushVars, watchVars, fileVars, flushes, histVars>>

OtherStep ==
    \/ otherPush \/ otherDtor \/ otherJoin \/ otherWatchPop
    \/ otherEmplaceBegin \/ otherEmplaceEnd \/ otherWrite \/ otherShut

(***************************************************************************)
(* Specification of two file sinks of one process: on each, pushes and the *)
(* destructor, which makes the watcher drain.                              *)
(***************************************************************************)
\* std::vector<std::exception_ptr> FileOps::m_excpPtrVec = {0}: the shared
\* fault list starts with one null entry
InitShared == InitSink(<<NullPtr>>)

NextShared ==
    \/ /\ calls[Encoder] < MaxPushes
       /\ pushEnqueue(Encoder, shortPayload(payloadId(Encoder)))
    \/ pushSize(Encoder)
    \/ FileWatcherStep
    \/ WriterStep
    \/ OwnerStep
    \/ OtherStep

SpecShared == InitShared /\ [][NextShared]_vars

\* C19: the two watcher threads are never inside emplace_back on the
\* shared fault list at the same time.
C19_FaultListExclusive ==
    ~(emplacing[Watcher] # "out" /\ emplacing[OtherWatcher] # "out")

(***************************************************************************)
(* The release of the destination, checked in the specification SpecRead,  *)
(* in which readFile is the file operation that follows a write.           *)
(***************************************************************************)
\* C20: when writeToFile has returned, after a write or after a failure to
\* open the file, the writer does not hold the destination mutex and has
\* not left the flag of the running file operation set: the flag is set
\* only while another file operation holds the mutex.
C20_WriterReleases ==
    pc[Writer] \in {"wr_done", "idle"}
    => /\ m_FileOpsMutex # Writer
       /\ m_isFileOpsRunning => m_FileOpsMutex = Reader

\* after a write that failed, readFile has taken the destination
C20_Witness ==
    /\ pc[Writer] = "wr_done"
    /\ failedAt = {1}
    /\ Len(batches) = 1
    /\ pc[Reader] = "r_read"
    /\ m_FileOpsMutex = Reader

(***************************************************************************)
(* FileOps::FileOps, FileOps::createFile and FileOps::writeFile            *)
(***************************************************************************)
\* the message of the std::runtime_error of writeFile, line 362
FileNotCreated == "File neither exists nor can be created"

\* the arguments the constructor is called with: no name, a bare name, a
\* name with an extension, a name with a directory that exists (d) or does
\* not (x); no directory, one without separator, one that does not exist
FileNames == {<<>>, <<"a">>, <<"a", ".", "b">>, <<"d", "/", "a">>,
              <<"x", "/", "a">>}
FilePaths == {<<>>, <<"d">>, <<"x", "/">>}
FileExtensions == {<<>>, <<".", "e">>}

\* FileOps::fileExists() on the file of the sink: false for an empty path
fileExists == m_FilePathObj # <<>> /\ canOpen(m_FilePathObj) /\ exists

\* the owner has not called the constructor yet, no watcher thread exists
NotConstructed ==
    [t \in Threads |-> IF t = Owner THEN "c_new"
                       ELSE IF t = Watcher THEN "w_none" ELSE "idle"]

\* lines 174-191: the members are set, populateFilePathObj composes the path
\* (it takes the destination mutex, which nobody else can hold yet, and
\* opens no file), and the watcher thread is started
construct(fileName, filePath, fileExtension) ==
    /\ pc[Owner] = "c_new"
    /\ m_FileOpsMutex = NoThread
    /\ ~m_isFileOpsRunning
    /\ LET f == constructed(fileName, filePath, fileExtension) IN
        /\ m_FileName' = f.m_FileName
        /\ m_FilePath' = f.m_FilePath
        /\ m_FileExtension' = f.m_FileExtension
        /\ m_FilePathObj' = f.m_FilePathObj
    /\ pc' = [pc EXCEPT ![Owner] = "idle", ![Watcher] = "w_lock"]
    /\ UNCHANGED <<exists, thrown, wdata, wcalls, toPush, retVal,
                   binaryStream, bindex, otherVars, queueVars, lockVars,
                   pushVars, watchVars, fileVars, flushes, histVars>>

\* a producer is outside every call on the constructed sink
outside(p) ==
    /\ pc[Owner] # "c_new"
    /\ pc[p] = "idle"
    /\ calls[p] >= toPush[p]

\* a writeFile that goes on with an empty payload
writeFileCallNoGuard(p, d) ==
    /\ outside(p)
    /\ wdata' = [wdata EXCEPT ![p] = d]
    /\ wcalls' = [wcalls EXCEPT ![p] = @ + 1]
    /\ thrown' = [thrown EXCEPT ![p] = ""]
    /\ goto(p, "wf_exists")
    /\ UNCHANGED <<m_FileName, m_FilePath, m_FileExtension, m_FilePathObj,
                   exists, toPush, retVal, otherVars, queueVars, lockVars,
                   pushVars, watchVars, fileVars, flushes, histVars>>

\* lines 352-355: writeFile(data) returns at once on an empty payload
writeFileCall(p, d) ==
    /\ outside(p)
    /\ wdata' = [wdata EXCEPT ![p] = d]
    /\ wcalls' = [wcalls EXCEPT ![p] = @ + 1]
    /\ thrown' = [thrown EXCEPT ![p] = ""]
    /\ IF d = <<>>
       THEN pc' = pc
       ELSE goto(p, "wf_exists")
    /\ UNCHANGED <<m_FileName, m_FilePath, m_FileExtension, m_FilePathObj,
                   exists, toPush, retVal, otherVars, queueVars, lockVars,
                   pushVars, watchVars, fileVars, flushes, histVars>>

\* lines 357 and 364-367: the file exists, push(data) is called; else
\* createFile() is
writeFileExists(p) ==
    /\ pc[p] = "wf_exists"
    /\ IF fileExists
       THEN /\ toPush' = [toPush EXCEPT ![p] = calls[p] + 1]
            /\ goto(p, "idle")
       ELSE /\ toPush' = toPush
            /\ goto(p, "wf_create")
    /\ UNCHANGED <<m_FileName, m_FilePath, m_FileExtension, m_FilePathObj,
                   exists, thrown, wdata, wcalls, retVal, binaryStream,
                   bindex, otherVars, queueVars, lockVars, pushVars,
                   watchVars, fileVars, flushes, histVars>>

\* createFile, lines 247-248: retVal = false; the file is looked for again
createTest(p) ==
    /\ pc[p] = "wf_create"
    /\ retVal' = [retVal EXCEPT ![p] = FALSE]
    /\ IF ~fileExists
       THEN goto(p, "wf_lock")
       ELSE goto(p, "wf_unflag")
    /\ UNCHANGED <<m_FileName, m_FilePath, m_FileExtension, m_FilePathObj,
                   exists, thrown, wdata, wcalls, toPush, binaryStream,
                   bindex, otherVars, queueVars, lockVars, pushVars,
                   watchVars, fileVars, flushes, histVars>>

\* createFile, lines 250-258: under the destination mutex the flag of the
\* running file operation is set and the file opened for writing, which
\* creates it or empties it
createLocked(p) ==
    /\ pc[p] = "wf_lock"
    /\ m_FileOpsMutex = NoThread
    /\ m_FileOpsMutex' = NoThread
    /\ m_isFileOpsRunning' = TRUE
    /\ IF canOpen(m_FilePathObj)
       THEN /\ exists' = TRUE
            /\ file' = <<>>
            /\ retVal' = [retVal EXCEPT ![p] = TRUE]
       ELSE UNCHANGED <<exists, file, retVal>>
    /\ goto(p, "wf_unflag")
    /\ UNCHANGED <<m_FileName, m_FilePath, m_FileExtension, m_FilePathObj,
                   thrown, wdata, wcalls, toPush, binaryStream, bindex,
                   otherVars, queueVars, lockVars, pushVars, watchVars,
                   errMsg, flushes, histVars>>

\* createFile, lines 259-261: the flag is cleared without the mutex
createUnflag(p) ==
    /\ pc[p] = "wf_unflag"
    /\ m_isFileOpsRunning' = FALSE
    /\ goto(p, "wf_ret")
    /\ UNCHANGED <<facadeVars, otherVars, queueVars, lockVars, pushVars,
                   watchVars, m_FileOpsMutex, errMsg, file, flushes,
                   histVars>>

\* a writeFile that pushes whatever createFile returned
writeFileCreatedAnyway(p) ==
    /\ pc[p] = "wf_ret"
    /\ toPush' = [toPush EXCEPT ![p] = calls[p] + 1]
    /\ goto(p, "idle")
    /\ UNCHANGED <<m_FileName, m_FilePath, m_FileExtension, m_FilePathObj,
                   exists, thrown, wdata, wcalls, retVal, binaryStream,
                   bindex, otherVars, queueVars, lockVars, pushVars,
                   watchVars, fileVars, flushes, histVars>>

\* lines 359-362: push(data) is called when createFile() returned true, else
\* the std::runtime_error is thrown to the caller
writeFileCreated(p) ==
    /\ pc[p] = "wf_ret"
    /\ IF retVal[p]
       THEN /\ toPush' = [toPush EXCEPT ![p] = calls[p] + 1]
            /\ thrown' = thrown
       ELSE /\ toPush' = toPush
            /\ thrown' = [thrown EXCEPT ![p] = FileNotCreated]
    /\ goto(p, "idle")
    /\ UNCHANGED <<m_FileName, m_FilePath, m_FileExtension, m_FilePathObj,
                   exists, wdata, wcalls, retVal, binaryStream, bindex,
                   otherVars, queueVars, lockVars, pushVars, watchVars,
                   fileVars, flushes, histVars>>

\* lines 360 and 366: push(data), called by writeFile
writeFilePush(p) ==
    /\ pc[Owner] # "c_new"
    /\ calls[p] < toPush[p]
    /\ pushEnqueue(p, wdata[p])

\* writeFile(data) of a text payload
writeFile(p, d) ==
    /\ writeFileCall(p, d)
    /\ UNCHANGED <<binaryStream, bindex>>

(***************************************************************************)
(* Specification of the file sink from its construction on: the owner      *)
(* constructs it with some file name, path and extension, on a file system *)
(* in which the file exists or not; producers call writeFile and push with *)
(* an empty or a one-record payload; the destructor makes the watcher      *)
(* drain.                                                                  *)
(***************************************************************************)
InitFile ==
    \E there \in BOOLEAN : InitAt(<<NullPtr>>, NotConstructed, NoFile, there)

NextFile ==
    \/ \E fileName \in FileNames, filePath \in FilePaths,
          fileExtension \in FileExtensions :
            construct(fileName, filePath, fileExtension)
    \/ \E p \in Producers :
        \/ /\ wcalls[p] < MaxPushes
           /\ \E d \in {<<>>, shortPayload(payloadId(p))} : writeFile(p, d)
        \/ writeFileExists(p)
        \/ createTest(p)
        \/ createLocked(p)
        \/ createUnflag(p)
        \/ writeFileCreated(p)
        \/ writeFilePush(p)
        \/ /\ outside(p)
           /\ calls[p] < MaxPushes
           /\ pushEnqueue(p, <<>>)
        \/ pushSize(p)
    \/ FileWatcherStep
    \/ WriterStep
    \/ OwnerStep

SpecFile == InitFile /\ [][NextFile]_vars

C22_EmptyPayloadNoOp ==
    [][\A p \in Producers :
        (\/ wcalls'[p] = wcalls[p] + 1 /\ wdata'[p] = <<>>
         \/ calls'[p] = calls[p] + 1 /\ data'[p] = <<>>)
        => /\ UNCHANGED <<queueVars, lockVars, pc, pushNotifies, enqHist,
                          m_FileOpsMutex, m_isFileOpsRunning, exists, file,
                          toPush>>
           /\ thrown'[p] \in {"", thrown[p]}]_vars

\* a producer has called writeFile and push with an empty payload while a
\* record of another producer is queued
C22_Witness ==
    \E p \in Producers :
        /\ wcalls[p] = 1 /\ wdata[p] = <<>>
        /\ calls[p] = 1 /\ data[p] = <<>>
        /\ m_DataRecords # <<>>

(***************************************************************************)
(* The numeric overloads of FileOps::writeFile.  An unsigned value of      *)
(* 8, 16, 32 or 64 bits is held as its bytes, the least significant first. *)
(***************************************************************************)
\* bit k of the value (bit 0 is the least significant)
bitAt(value, k) == (value[(k \div 8) + 1] \div (2 ^ (k % 8))) % 2

\* the characters '0' and '1'
Digit0 == 48
Digit1 == 49

\* a to_string that begins with the least significant bit
to_stringReversed(value) ==
    [i \in 1..(8 * Len(value)) |->
        IF bitAt(value, i - 1) = 1 THEN Digit1 ELSE Digit0]

\* std::bitset<w>(data).to_string(), w the width of data: character i of
\* the string, counted from 0, is bit w - 1 - i
to_string(value) ==
    [i \in 1..(8 * Len(value)) |->
        IF bitAt(value, 8 * Len(value) - i) = 1 THEN Digit1 ELSE Digit0]

\* lines 370-388: writeFile(const uintN_t data) calls writeFile with the
\* string of the bitset
writeFileNumber(p, value) == writeFileCall(p, to_string(value))

\* lines 451-485: writeFile(const std::vector<uintN_t>& binaryStream) is
\* called with an array that is not empty
writeFileStream(p, stream) ==
    /\ outside(p)
    /\ wcalls[p] = 0
    /\ binaryStream = <<>>
    /\ stream # <<>>
    /\ binaryStream' = stream
    /\ bindex' = 0
    /\ UNCHANGED <<m_FileName, m_FilePath, m_FileExtension, m_FilePathObj,
                   exists, thrown, wdata, wcalls, toPush, retVal, pc,
                   otherVars, queueVars, lockVars, pushVars, watchVars,
                   fileVars, flushes, histVars>>

\* one turn of the loop of the array overload: writeFile(bindata)
writeFileElement(p) ==
    /\ bindex < Len(binaryStream)
    /\ writeFileNumber(p, binaryStream[bindex + 1])
    /\ bindex' = bindex + 1
    /\ binaryStream' = binaryStream

(***************************************************************************)
(* Specification of the numeric writes: one thread hands an array of       *)
(* numbers of one width to writeFile, on a sink whose file exists.         *)
(***************************************************************************)
Numbers ==
    {<<0>>, <<5>>, <<128>>, <<255>>,
     <<5, 0>>, <<0, 1>>, <<255, 255>>,
     <<5, 0, 0, 0>>, <<0, 0, 0, 128>>, <<255, 255, 255, 255>>,
     <<5, 0, 0, 0, 0, 0, 0, 0>>, <<0, 0, 0, 0, 0, 0, 0, 128>>,
     <<1, 2, 3, 4, 5, 6, 7, 8>>,
     <<255, 255, 255, 255, 255, 255, 255, 255>>}

Streams ==
    {stream \in UNION {[1..n -> Numbers] : n \in 1..MaxElements} :
        \A i \in 1..Len(stream) : Len(stream[i]) = Len(stream[1])}

NextNumeric ==
    \/ \E stream \in Streams : writeFileStream(Encoder, stream)
    \/ writeFileElement(Encoder)
    \/ writeFileExists(Encoder)
    \/ writeFilePush(Encoder)
    \/ pushSize(Encoder)

SpecNumeric == InitSink(<<NullPtr>>) /\ [][NextNumeric]_vars

\* the number that a text of binary digits denotes
RECURSIVE binaryOf(_)
binaryOf(text) ==
    IF text = <<>> THEN 0
    ELSE 2 * binaryOf(SubSeq(text, 1, Len(text) - 1))
            + (text[Len(text)] - Digit0)

\* text is the binary text of value, most significant bit first: one
\* character '0' or '1' per bit, the last eight characters denoting the
\* least significant byte
isBinaryText(text, value) ==
    /\ Len(text) = 8 * Len(value)
    /\ \A i \in 1..Len(text) : text[i] \in {Digit0, Digit1}
    /\ \A j \in 1..Len(value) :
        binaryOf(SubSeq(text, Len(text) - 8 * j + 1,
                        Len(text) - 8 * (j - 1))) = value[j]

\* C23: between two writes of an array of w-bit values, the queue holds one
\* record per element written, in element order, and the payload of each is
\* the w-character binary text of its element, most significant bit first;
\* the 8-bit value 5 is enqueued as "00000101".
C23_BinaryText ==
    outside(Encoder)
    => /\ Len(m_DataRecords) = bindex
       /\ \A i \in 1..bindex :
            /\ isBinaryText(trimmed(m_DataRecords[i]), binaryStream[i])
            /\ \A k \in (8 * Len(binaryStream[i]) + 1)..RecordSize :
                arrayAt(m_DataRecords[i], k) = 0
            /\ binaryStream[i] = <<5>>
                => trimmed(m_DataRecords[i]) =
                    <<48, 48, 48, 48, 48, 49, 48, 49>>

\* the array (5, 128) of 8-bit values has been written
C23_Witness ==
    /\ outside(Encoder)
    /\ binaryStream = <<<<5>>, <<128>>>>
    /\ bindex = 2
    /\ Len(m_DataRecords) = 2
    /\ trimmed(m_DataRecords[1]) = <<48, 48, 48, 48, 48, 49, 48, 49>>
    /\ trimmed(m_DataRecords[2]) = <<49, 48, 48, 48, 48, 48, 48, 48>>

(***************************************************************************)
(* Specification of a flush that meets the threshold: the burst of the     *)
(* threshold specification, and a thread that calls flush when the burst   *)
(* is about to reach the threshold or has reached it; the sink keeps       *)
(* running.                                                                *)
(***************************************************************************)
NextFlush ==
    \/ NextThreshold
    \/ (calls[Encoder] >= Threshold - 1 /\ flushCall)
    \/ flushLock \/ flushWait \/ flushBlock \/ flushWake \/ flushNotify

SpecFlush == Init /\ [][NextFlush]_vars

\* every thread that is inside a call runs under a fair scheduler, and a
\* thread that waits for a mutex which is released again and again gets it
\* in the end; nobody has to call push or flush
FairSpecFlush ==
    /\ SpecFlush
    /\ WF_vars(pushSize(Encoder) \/ pushReady(Encoder) \/ pushNotify(Encoder))
    /\ SF_vars(WatcherStep)
    /\ WF_vars(writeStart \/ writeOpen(TRUE) \/ writeRecord \/ writeRelease)
    /\ SF_vars(flushLock \/ flushWait \/ flushBlock \/ flushWake
                    \/ flushNotify)

\* C24: every flush() call eventually returns.
C24_FlushReturns ==
    (pc[Flusher] \notin {"idle", "f_done"}) ~> (pc[Flusher] = "f_done")

(***************************************************************************)
(* Specification of the threshold under payloads of several records and    *)
(* concurrent pushes: one producer fills the queue with one-byte payloads  *)
(* up to one record below the threshold; then every producer makes one     *)
(* more push, of a payload of one record or of two; the watcher and its    *)
(* writer run.                                                             *)
(***************************************************************************)
\* a payload of RecordSize + 1 bytes, which push enqueues as two records
twoRecordPayload == [i \in 1..(RecordSize + 1) |-> 65]

NextLevel ==
    \/ /\ calls[Encoder] < Threshold - 1
       /\ pushEnqueue(Encoder, oneBytePayload)
    \/ \E p \in Producers :
        \/ /\ Len(enqHist) >= Threshold - 1
           /\ calls[p] < (IF p = Encoder THEN Threshold ELSE 1)
           /\ \E payload \in {oneBytePayload, twoRecordPayload} :
                pushEnqueue(p, payload)
        \/ pushSize(p)
        \/ pushReady(p)
        \/ pushNotify(p)
    \/ WatcherStep
    \/ writeStart \/ writeOpen(TRUE) \/ writeRecord \/ writeRelease

SpecLevel == Init /\ [][NextLevel]_vars

\* C25: when no push is in progress and the queue, which no drain has
\* emptied, holds at least 256 records, the ready flag is set and a push has
\* notified the watcher.
C25_LevelTriggered ==
    (/\ \A p \in Producers : pc[p] = "idle"
     /\ batches = <<>>
     /\ Len(m_DataRecords) >= Threshold)
    => (m_dataReady /\ pushNotifies >= 1)

(***************************************************************************)
(* The ready flag and the queue, checked in the concurrent specification   *)
(* Spec.                                                                   *)
(***************************************************************************)
\* C26: whenever the queue mutex is free and no push is in progress, a true
\* ready flag comes with a queue that is not empty.
C26_ReadyMeansData ==
    (/\ m_DataRecordsMtx = NoThread
     /\ \A p \in Producers : pc[p] = "idle")
    => (m_dataReady => m_DataRecords # <<>>)

(***************************************************************************)
(* The drain, checked in the concurrent specification Spec, in which a     *)
(* failed write leaves its batch in the buffer of the watcher.             *)
(***************************************************************************)
\* the step of the watcher that is the call of pop
drains == pc[Watcher] = "w_pop" /\ pc'[Watcher] = "w_notify"

\* the step that starts a writer thread
dispatches == pc[Writer] = "idle" /\ pc'[Writer] # "idle"

\* C27: a drain on a non-empty queue hands out the whole queue, in order,
\* in place of what the buffer held, leaves the queue empty and clears the
\* ready flag; a drain on an empty queue reports no data and changes neither
\* the queue nor the buffer; a writer is started only for a drain that
\* handed out data.
C27_DrainWhole ==
    [][/\ drains
          => IF m_DataRecords # <<>>
             THEN /\ success'
                  /\ dataq' = m_DataRecords
                  /\ m_DataRecords' = <<>>
                  /\ ~m_dataReady'
             ELSE /\ ~success'
                  /\ UNCHANGED <<m_DataRecords, dataq>>
       /\ dispatches => (success /\ dataq # <<>>)]_vars

\* the second drain has replaced the batch that a failed write left in the
\* buffer by the record of the queue
C27_Witness ==
    /\ pc[Watcher] = "w_notify"
    /\ success
    /\ failedAt = {1}
    /\ Len(batches) = 2
    /\ dataq = batches[2]
    /\ dataq # batches[1]
    /\ m_DataRecords = <<>>
    /\ ~m_dataReady

====
